---- MODULE Spec2Model ----
(***************************************************************************)
(* Model of the mcp-web-integration server: the tool dispatcher of         *)
(* server.py, the SearxNG search adapter, the Crawl4AI crawl adapter and   *)
(* the YouTube transcript adapter.  Python strings are TLA+ strings; a     *)
(* Python dict is a function whose DOMAIN is the set of its keys; a JSON   *)
(* value of an upstream body is a record tagged with its type, the value   *)
(* held under the field of that name: [t |-> "str", str |-> "abc"].        *)
(***************************************************************************)
EXTENDS Integers, Sequences, FiniteSets, TLC

VARIABLES
    pc,              \* position of arun() in server.py
    env,             \* the environment the process was started with
    searxng_tool,    \* server.py global: "None" or "SearxNGSearchTool"
    crawl4ai_tool,   \* server.py global: "None" or "Crawl4AITool"
    searxng_client,  \* SearxNGSearcher.client: "none", "open", "closed"
    crawl4ai_client, \* Crawl4AICrawler.client: "none", "open", "closed"
    close_log,       \* the close() calls made by the finally block, in order
    exit_code,       \* return value of arun(): -1 while running, then 0 or 1
    served,          \* number of requests the transport loop has dispatched
    req,             \* the request being answered: kind, name, arguments
    upstream,        \* the outcome the upstream had ready for this request
    raised,          \* message of the exception the handler raised, or ""
    reply,           \* the value the handler returned
    invoked,         \* adapter whose handle_request ran for this request
    sent,            \* upstream HTTP requests issued while answering it
    params,          \* outcome of the adapter's parameter validation
    response,        \* outcome of the adapter's search()/crawl() call
    yt               \* outcome of the last YouTube transcript tool request

vars == <<pc, env, searxng_tool, crawl4ai_tool, searxng_client,
          crawl4ai_client, close_log, exit_code, served, req, upstream,
          raised, reply, invoked, sent, params, response, yt>>

----------------------------------------------------------------------------
(* Bounds of the model *)

MaxRequests == 2     \* requests dispatched by one run of the transport loop
MaxEntries == 3      \* entries in an upstream search result list
MaxSegments == 3     \* segments in an upstream transcript

----------------------------------------------------------------------------
(* Python string helpers *)

Char(s, i) == SubSeq(s, i, i)

Chars(s) == {Char(s, i) : i \in 1..Len(s)}

\* s[i:] with a 0-based Python index i
From(s, i) == SubSeq(s, i + 1, Len(s))

\* s[:i] with a 0-based Python index i
UpTo(s, i) == SubSeq(s, 1, i)

\* s.startswith(p)
StartsWith(s, p) == Len(s) >= Len(p) /\ SubSeq(s, 1, Len(p)) = p

\* s[i:].startswith(p), 0-based i
MatchAt(s, i, p) == i + Len(p) <= Len(s) /\ SubSeq(s, i + 1, i + Len(p)) = p

\* sub in s
Contains(s, sub) == \E i \in 0..Len(s) : MatchAt(s, i, sub)

\* s.find(c): 0-based index of the first occurrence of a character of cs, or -1
FindAny(s, cs) ==
    IF \E i \in 1..Len(s) : Char(s, i) \in cs
    THEN (CHOOSE i \in 1..Len(s) :
              /\ Char(s, i) \in cs
              /\ \A j \in 1..(i - 1) : Char(s, j) \notin cs) - 1
    ELSE -1

UpperCase == "ABCDEFGHIJKLMNOPQRSTUVWXYZ"
LowerCase == "abcdefghijklmnopqrstuvwxyz"
Digits == "0123456789"

LowerChar(c) ==
    IF c \in Chars(UpperCase)
    THEN Char(LowerCase, CHOOSE i \in 1..Len(UpperCase) : Char(UpperCase, i) = c)
    ELSE c

RECURSIVE Lower(_)
Lower(s) == IF s = "" THEN "" ELSE LowerChar(Head(s)) \o Lower(Tail(s))

----------------------------------------------------------------------------
(* urllib.parse.urlparse, as far as CrawlParams.validate_url reads it *)

SchemeChars == Chars(UpperCase) \cup Chars(LowerCase) \cup Chars(Digits)
                   \cup {"+", "-", "."}

\* the scheme split of urlsplit: url[:i].lower() when url[:i] is a scheme
HasSchemePrefix(url) ==
    LET i == FindAny(url, {":"})
    IN  /\ i > 0
        /\ Char(url, 1) \in Chars(UpperCase) \cup Chars(LowerCase)
        /\ \A k \in 1..i : Char(url, k) \in SchemeChars

\* the netloc split of urlsplit: after '//' up to the first of '/', '?', '#'
SplitNetloc(rest) ==
    IF StartsWith(rest, "//")
    THEN LET tail == From(rest, 2)
             d == FindAny(tail, {"/", "?", "#"})
         IN  IF d < 0 THEN tail ELSE UpTo(tail, d)
    ELSE ""

urlparse(url) ==
    LET i == FindAny(url, {":"})
        scheme == IF HasSchemePrefix(url) THEN Lower(UpTo(url, i)) ELSE ""
        rest == IF HasSchemePrefix(url) THEN From(url, i + 1) ELSE url
    IN  [scheme |-> scheme, netloc |-> SplitNetloc(rest)]

\* CrawlParams.validate_url / CrawlResult.validate_url: "" when v passes,
\* else the message of the ValueError
validate_url_NoHostCheck(v) ==
    LET Check(result) ==
            IF result.scheme = ""
            THEN "Invalid URL format: must include scheme and host"
            ELSE IF result.scheme \notin {"http", "https"}
            THEN "URL scheme must be http or https"
            ELSE ""
    IN  Check(urlparse(v))

validate_url(v) ==
    LET Check(result) ==
            IF result.scheme = "" \/ result.netloc = ""
            THEN "Invalid URL format: must include scheme and host"
            ELSE IF result.scheme \notin {"http", "https"}
            THEN "URL scheme must be http or https"
            ELSE ""
    IN  Check(urlparse(v))

----------------------------------------------------------------------------
(* Python and JSON values *)

\* the payload is kept under the name of the type
None == [t |-> "null"]
Str(s) == [t |-> "str", str |-> s]
Num(n) == [t |-> "int", int |-> n]
Bool(b) == [t |-> "bool", bool |-> b]
Obj(f) == [t |-> "obj", obj |-> f]
Arr(q) == [t |-> "arr", arr |-> q]
Val(x) == x[x.t]

\* the empty dict
EmptyDict == <<>>

\* d.get(key, default)
Get(d, key, default) == IF key \in DOMAIN d THEN d[key] ELSE default

\* truthiness of a tagged value
Truthy(x) ==
    CASE x.t = "null" -> FALSE
      [] x.t = "str" -> Val(x) # ""
      [] x.t = "int" -> Val(x) # 0
      [] x.t = "bool" -> Val(x)
      [] x.t = "obj" -> DOMAIN Val(x) # {}
      [] x.t = "arr" -> Len(Val(x)) > 0

\* outcome of evaluating a Python expression or block
Ok(v) == [kind |-> "ok", v |-> v]
Exc(type, msg) == [kind |-> "exc", type |-> type, msg |-> msg]

\* the classes an exception type is an instance of
Bases(type) ==
    CASE type = "TimeoutException" ->
             {"TimeoutException", "TransportError", "RequestError", "Exception"}
      [] type = "TransportError" ->
             {"TransportError", "RequestError", "Exception"}
      [] type = "RequestError" -> {"RequestError", "Exception"}
      [] type = "HTTPStatusError" -> {"HTTPStatusError", "Exception"}
      [] type = "JSONDecodeError" -> {"JSONDecodeError", "ValueError", "Exception"}
      [] type = "ValidationError" -> {"ValidationError", "ValueError", "Exception"}
      [] type = "UnicodeDecodeError" -> {"UnicodeDecodeError", "ValueError", "Exception"}
      [] type = "TranscriptsDisabled" -> {"TranscriptsDisabled", "Exception"}
      [] type = "NoTranscriptFound" -> {"NoTranscriptFound", "Exception"}
      [] OTHER -> {type, "Exception"}

IsInstance(e, classes) == e.kind = "exc" /\ Bases(e.type) \cap classes # {}

\* int(s) for an unsigned decimal string
RECURSIVE DecimalValue(_)
DecimalValue(s) ==
    IF s = "" THEN 0
    ELSE 10 * DecimalValue(UpTo(s, Len(s) - 1))
           + ((CHOOSE i \in 1..10 : Char(Digits, i) = Char(s, Len(s))) - 1)

PyInt(s) ==
    IF s # "" /\ Chars(s) \subseteq Chars(Digits)
    THEN Ok(DecimalValue(s))
    ELSE Exc("ValueError", "invalid literal for int() with base 10: '" \o s \o "'")

\* sep.join(parts)
RECURSIVE Join(_, _)
Join(sep, parts) ==
    IF Len(parts) = 0 THEN ""
    ELSE IF Len(parts) = 1 THEN parts[1]
    ELSE parts[1] \o sep \o Join(sep, Tail(parts))

\* key in x
In(key, x) ==
    CASE x.t = "obj" -> Ok(key \in DOMAIN Val(x))
      [] x.t = "str" -> Ok(Contains(Val(x), key))
      [] x.t = "arr" -> Ok(\E i \in 1..Len(Val(x)) : Val(x)[i] = Str(key))
      [] OTHER -> Exc("TypeError", "argument of type '" \o x.t \o "' is not iterable")

\* x[key] for a string key
Subscript(x, key) ==
    CASE x.t = "obj" -> IF key \in DOMAIN Val(x) THEN Ok(Val(x)[key])
                        ELSE Exc("KeyError", "'" \o key \o "'")
      [] x.t \in {"str", "arr"} -> Exc("TypeError", "indices must be integers")
      [] OTHER -> Exc("TypeError", "'" \o x.t \o "' object is not subscriptable")

\* x.get(key, default)
DictGet(x, key, default) ==
    IF x.t = "obj" THEN Ok(Get(Val(x), key, default))
    ELSE Exc("AttributeError", "'" \o x.t \o "' object has no attribute 'get'")

\* the message pydantic gives a ValidationError: the offending fields in order
ValidationMessage(model, errors) ==
    ToString(Len(errors)) \o " validation error for " \o model \o "\n"
        \o Join("\n", errors)

----------------------------------------------------------------------------
(* crawl4ai/config.py *)

Crawl4AIConfig_from_env(e) ==
    LET word_count_threshold == PyInt(Get(e, "CRAWL4AI_WORD_COUNT_THRESHOLD", "0"))
        timeout == PyInt(Get(e, "CRAWL4AI_TIMEOUT", "300"))
    IN  IF word_count_threshold.kind = "exc" THEN word_count_threshold
        ELSE IF timeout.kind = "exc" THEN timeout
        ELSE Ok([base_url |-> Get(e, "CRAWL4AI_URL", "http://localhost:11235"),
                 api_token |-> Get(e, "CRAWL4AI_API_TOKEN", ""),
                 headless |-> Lower(Get(e, "CRAWL4AI_HEADLESS", "true")) = "true",
                 verbose |-> Lower(Get(e, "CRAWL4AI_VERBOSE", "false")) = "true",
                 word_count_threshold |-> word_count_threshold.v,
                 wait_for |-> Get(e, "CRAWL4AI_WAIT_FOR", ""),
                 timeout |-> timeout.v])

----------------------------------------------------------------------------
(* crawl4ai/schemas.py *)

CacheModes == {"bypass", "enabled", "disabled", "read_only", "write_only"}

\* CrawlParams(**arguments): the per-field errors, in field order
CrawlParamsErrors(arguments) ==
    LET UrlError(msg) == IF msg # "" THEN <<"url: Value error, " \o msg>> ELSE <<>>
        url == IF "url" \notin DOMAIN arguments THEN <<"url: Field required">>
               ELSE IF arguments["url"].t # "str"
               THEN <<"url: Input should be a valid string">>
               ELSE UrlError(validate_url(Val(arguments["url"])))
        timeout == IF Get(arguments, "timeout", None).t \in {"null", "int"}
                   THEN <<>>
                   ELSE <<"timeout: Input should be a valid integer">>
        cache_mode == LET c == Get(arguments, "cache_mode", Str("enabled"))
                      IN  IF c.t = "null" \/ (c.t = "str" /\ Val(c) \in CacheModes)
                          THEN <<>>
                          ELSE <<"cache_mode: Input should be 'bypass', 'enabled', 'disabled', 'read_only' or 'write_only'">>
        extra_headers == LET h == Get(arguments, "extra_headers", None)
                         IN  IF \/ h.t = "null"
                                \/ /\ h.t = "obj"
                                   /\ \A k \in DOMAIN Val(h) : Val(h)[k].t = "str"
                             THEN <<>>
                             ELSE <<"extra_headers: Input should be a valid dictionary of strings">>
    IN  url \o timeout \o cache_mode \o extra_headers

CrawlParams(arguments) ==
    LET Validated(errors) ==
            IF errors # <<>>
            THEN Exc("ValidationError", ValidationMessage("CrawlParams", errors))
            ELSE Ok([url |-> Val(arguments["url"]),
                     timeout |-> Get(arguments, "timeout", None),
                     cache_mode |-> Get(arguments, "cache_mode", Str("enabled")),
                     extra_headers |-> Get(arguments, "extra_headers", None)])
    IN  Validated(CrawlParamsErrors(arguments))

\* Link(**raw) as pydantic builds it from one dict of the links lists
Link(raw) ==
    IF raw["href"].t # "str" THEN Exc("ValidationError", "href: Input should be a valid string")
    ELSE IF raw["text"].t # "str" THEN Exc("ValidationError", "text: Input should be a valid string")
    ELSE IF raw["title"].t \notin {"str", "null"}
    THEN Exc("ValidationError", "title: Input should be a valid string")
    ELSE Ok([href |-> Val(raw["href"]), text |-> Val(raw["text"]), title |-> raw["title"]])

\* CrawlResult(url, content, status, success, error, links): content, success
\* and error arrive as tagged values, links as two lists of raw link dicts
CrawlResult(url, content, status, success, error, links) ==
    LET bad == {k \in {"internal", "external"} :
                    \E i \in 1..Len(links[k]) : Link(links[k][i]).kind = "exc"}
        UrlError(msg) == IF msg # "" THEN <<"url: Value error, " \o msg>> ELSE <<>>
        Validated(errors) ==
            IF errors # <<>>
            THEN Exc("ValidationError", ValidationMessage("CrawlResult", errors))
            ELSE Ok([url |-> url, content |-> Val(content), status |-> status,
                     success |-> Val(success), error |-> error,
                     links |-> [k \in {"internal", "external"} |->
                                   [i \in 1..Len(links[k]) |-> Link(links[k][i]).v]]])
    IN  Validated(
            UrlError(validate_url(url))
            \o (IF content.t # "str" THEN <<"content: Input should be a valid string">> ELSE <<>>)
            \o (IF success.t # "bool" THEN <<"success: Input should be a valid boolean">> ELSE <<>>)
            \o (IF error.t \notin {"str", "null"} THEN <<"error: Input should be a valid string">> ELSE <<>>)
            \o (IF bad # {} THEN <<"links: Input should be a valid Link">> ELSE <<>>))

----------------------------------------------------------------------------
(* crawl4ai/crawler.py *)

\* Crawl4AICrawler.headers
CrawlerHeaders(config) ==
    IF config.api_token # ""
    THEN ("Authorization" :> ("Bearer " \o config.api_token))
    ELSE EmptyDict

_build_request_data(p, config) ==
    ("urls" :> Str(p.url))
    @@ ("priority" :> Num(5))
    @@ ("cache_mode" :> p.cache_mode)
    @@ ("crawler_params" :>
           Obj([headless |-> Bool(config.headless),
                verbose |-> Bool(config.verbose),
                word_count_threshold |-> Num(config.word_count_threshold)]))
    @@ (IF config.wait_for # "" THEN ("wait_for" :> Str(config.wait_for)) ELSE EmptyDict)
    @@ (IF Truthy(p.extra_headers) THEN ("headers" :> p.extra_headers) ELSE EmptyDict)

RequiredResultFields == <<"markdown", "success", "links">>

\* the loop over required_fields: the first field that is missing or whose
\* membership test raises decides
RECURSIVE CheckRequiredFields(_, _)
CheckRequiredFields(result, fields) ==
    IF Len(fields) = 0 THEN Ok(TRUE)
    ELSE LET present == In(Head(fields), result)
         IN  IF present.kind = "exc" THEN present
             ELSE IF ~present.v
             THEN Exc("ValueError", "Missing required field in result: " \o Head(fields))
             ELSE CheckRequiredFields(result, Tail(fields))

_validate_response_data(data) ==
    IF data.t # "obj"
    THEN Exc("ValueError", "Invalid response format: expected dictionary")
    ELSE IF "result" \notin DOMAIN Val(data)
    THEN Exc("ValueError", "Missing required field: result")
    ELSE CheckRequiredFields(Val(data)["result"], RequiredResultFields)

ErrorContent == "Error occurred while crawling"

\* CrawlResponse(results=[result], total_count=1), result being the outcome
\* of building the CrawlResult
CrawlResponse(result) ==
    IF result.kind = "exc" THEN result
    ELSE Ok([results |-> <<result.v>>, total_count |-> 1])

_build_error_response(url, error) ==
    CrawlResponse(CrawlResult(url, Str(ErrorContent), "failed", Bool(FALSE),
                              Str(error),
                              [k \in {"internal", "external"} |-> <<>>]))

\* one list comprehension over data["result"]["links"].get(key, [])
RawLinks(links, key) ==
    LET Each(got) ==
            IF got.kind = "exc" THEN got
            ELSE IF got.v.t # "arr"
            THEN Exc("TypeError", "'" \o got.v.t \o "' object is not iterable")
            ELSE IF \E i \in 1..Len(Val(got.v)) : Val(got.v)[i].t # "obj"
            THEN Exc("AttributeError", "object has no attribute 'get'")
            ELSE Ok([i \in 1..Len(Val(got.v)) |->
                        [href |-> Get(Val(Val(got.v)[i]), "href", Str("")),
                         text |-> Get(Val(Val(got.v)[i]), "text", Str("")),
                         title |-> Get(Val(Val(got.v)[i]), "title", Str(""))]])
    IN  Each(DictGet(links, key, Arr(<<>>)))

\* a result whose status follows the upstream success flag
BuildCrawlResponse_StatusFollowsSuccess(p, data) ==
    LET result == Val(data)["result"]
        Build(markdown, success, links) ==
            LET Collect(internal, external) ==
                    IF internal.kind = "exc" THEN internal
                    ELSE IF external.kind = "exc" THEN external
                    ELSE CrawlResponse(CrawlResult(p.url,
                             IF Truthy(markdown.v) THEN markdown.v ELSE Str(""),
                             IF Truthy(success.v) THEN "completed" ELSE "failed",
                             success.v,
                             Get(Val(data), "error", None),
                             [internal |-> internal.v, external |-> external.v]))
            IN  IF markdown.kind = "exc" THEN markdown
                ELSE IF success.kind = "exc" THEN success
                ELSE IF links.kind = "exc" THEN links
                ELSE Collect(RawLinks(links.v, "internal"),
                             RawLinks(links.v, "external"))
    IN  Build(Subscript(result, "markdown"), Subscript(result, "success"),
              Subscript(result, "links"))

\* the statements of crawl() after validation: build the CrawlResponse
BuildCrawlResponse(p, data) ==
    LET result == Val(data)["result"]
        Build(markdown, success, links) ==
            LET Collect(internal, external) ==
                    IF internal.kind = "exc" THEN internal
                    ELSE IF external.kind = "exc" THEN external
                    ELSE CrawlResponse(CrawlResult(p.url,
                             IF Truthy(markdown.v) THEN markdown.v ELSE Str(""),
                             "completed", success.v,
                             Get(Val(data), "error", None),
                             [internal |-> internal.v, external |-> external.v]))
            IN  IF markdown.kind = "exc" THEN markdown
                ELSE IF success.kind = "exc" THEN success
                ELSE IF links.kind = "exc" THEN links
                ELSE Collect(RawLinks(links.v, "internal"),
                             RawLinks(links.v, "external"))
    IN  Build(Subscript(result, "markdown"), Subscript(result, "success"),
              Subscript(result, "links"))

\* the body of the try block of crawl() once the POST has been answered:
\* a returned CrawlResponse, or the exception that reaches the except clauses
CrawlTry(p, up) ==
    IF up.kind = "exc" THEN Exc(up.type, up.msg)
    ELSE IF up.status \notin 200..299
    THEN _build_error_response(p.url,
             "HTTP " \o ToString(up.status) \o ": status error for url")
    ELSE IF up.body.t = "invalid"
    THEN _build_error_response(p.url, "Invalid JSON response: " \o Val(up.body))
    ELSE IF up.body.t = "undecodable"
    THEN Exc("UnicodeDecodeError", Val(up.body))
    ELSE LET Validated(valid) ==
                 IF IsInstance(valid, {"ValueError"})
                 THEN _build_error_response(p.url, valid.msg)
                 ELSE IF valid.kind = "exc" THEN valid
                 ELSE BuildCrawlResponse(p, up.body)
         IN  Validated(_validate_response_data(up.body))

\* crawl() without its last except clause
crawl_NoCatchAll(p, up) ==
    LET Except(try) ==
            IF IsInstance(try, {"TimeoutException"})
            THEN _build_error_response(p.url, "Request timeout: " \o try.msg)
            ELSE IF IsInstance(try, {"TransportError"})
            THEN _build_error_response(p.url, "HTTP/2 transport error: " \o try.msg)
            ELSE IF IsInstance(try, {"RequestError"})
            THEN _build_error_response(p.url, "Request failed: " \o try.msg)
            ELSE try
    IN  Except(CrawlTry(p, up))

\* Crawl4AICrawler.crawl: Ok(CrawlResponse), or the exception it lets escape
crawl(p, up) ==
    LET Except(try) ==
            IF IsInstance(try, {"TimeoutException"})
            THEN _build_error_response(p.url, "Request timeout: " \o try.msg)
            ELSE IF IsInstance(try, {"TransportError"})
            THEN _build_error_response(p.url, "HTTP/2 transport error: " \o try.msg)
            ELSE IF IsInstance(try, {"RequestError"})
            THEN _build_error_response(p.url, "Request failed: " \o try.msg)
            ELSE IF IsInstance(try, {"Exception"})
            THEN _build_error_response(p.url, "Unexpected error: " \o try.msg)
            ELSE try
    IN  Except(CrawlTry(p, up))

\* the POST crawl() issues
CrawlRequest(p, config) ==
    [method |-> "POST",
     url |-> config.base_url \o "/crawl_direct",
     json |-> _build_request_data(p, config),
     headers |-> CrawlerHeaders(config),
     timeout |-> IF Truthy(p.timeout) THEN Val(p.timeout) ELSE config.timeout]

----------------------------------------------------------------------------
(* crawl4ai/tool.py *)

TextContent(text) == [type |-> "text", text |-> text]

\* str() of an Optional[str] field
OptStr(x) == IF x.t = "null" THEN "None" ELSE Val(x)

LinkLine(link) ==
    "- " \o link.text \o " (" \o link.href \o ")"
        \o (IF Truthy(link.title) THEN " [" \o Val(link.title) \o "]" ELSE "")

LinkLines(links) == [i \in 1..Len(links) |-> LinkLine(links[i])]

\* the lines handle_request renders for one CrawlResult
CrawlResultLines(result) ==
    IF result.success
    THEN <<"URL: " \o result.url, "Content:", result.content, "---",
           "\nInternal Links:">>
         \o LinkLines(result.links["internal"])
         \o <<"\nExternal Links:">>
         \o LinkLines(result.links["external"])
    ELSE <<"Failed to crawl " \o result.url, "Error: " \o OptStr(result.error),
           "---">>

RECURSIVE CrawlLines(_)
CrawlLines(results) ==
    IF Len(results) = 0 THEN <<>>
    ELSE CrawlResultLines(Head(results)) \o CrawlLines(Tail(results))

\* Crawl4AITool.handle_request: what it validated, sent, got and returned
Crawl4AITool_handle_request(arguments, config, up) ==
    LET Handle(p) ==
            LET Format(crawl_response) ==
                    [params |-> p, sent |-> <<CrawlRequest(p.v, config)>>,
                     response |-> crawl_response,
                     reply |-> IF crawl_response.kind = "exc"
                               THEN <<TextContent("Crawl failed: "
                                                  \o crawl_response.msg)>>
                               ELSE <<TextContent("\n\n" \o
                                        Join("\n",
                                             CrawlLines(crawl_response.v.results)))>>]
            IN  IF p.kind = "exc"
                THEN [params |-> p, sent |-> <<>>, response |-> [kind |-> "none"],
                      reply |-> <<TextContent("Crawl failed: " \o p.msg)>>]
                ELSE Format(crawl(p.v, up))
    IN  Handle(CrawlParams(arguments))

----------------------------------------------------------------------------
(* searxng/config.py, searxng/schemas.py *)

SearxNGConfig_from_env(e) ==
    IF Get(e, "SEARXNG_URL", "") = ""
    THEN Exc("ValueError", "SEARXNG_URL environment variable is required")
    ELSE Ok([base_url |-> e["SEARXNG_URL"]])

DefaultLimit == 3
MinLimit == 1
MaxLimit == 50
DefaultPage == 1
MinPage == 1

\* a SearchParams that accepts any integer limit and page
SearchParamsErrors_NoBounds(arguments) ==
    LET query == IF "query" \notin DOMAIN arguments THEN <<"query: Field required">>
                 ELSE IF arguments["query"].t # "str"
                 THEN <<"query: Input should be a valid string">>
                 ELSE <<>>
        limit == IF Get(arguments, "limit", Num(DefaultLimit)).t # "int"
                 THEN <<"limit: Input should be a valid integer">> ELSE <<>>
        time_range == IF Get(arguments, "time_range", None).t \in {"null", "str"}
                      THEN <<>>
                      ELSE <<"time_range: Input should be a valid string">>
        page == IF Get(arguments, "page", Num(DefaultPage)).t \notin {"null", "int"}
                THEN <<"page: Input should be a valid integer">> ELSE <<>>
    IN  query \o limit \o time_range \o page

\* SearchParams(**arguments): the per-field errors, in field order
SearchParamsErrors(arguments) ==
    LET query == IF "query" \notin DOMAIN arguments THEN <<"query: Field required">>
                 ELSE IF arguments["query"].t # "str"
                 THEN <<"query: Input should be a valid string">>
                 ELSE <<>>
        limit == LET l == Get(arguments, "limit", Num(DefaultLimit))
                 IN  IF l.t # "int" THEN <<"limit: Input should be a valid integer">>
                     ELSE IF Val(l) < MinLimit
                     THEN <<"limit: Input should be greater than or equal to 1">>
                     ELSE IF Val(l) > MaxLimit
                     THEN <<"limit: Input should be less than or equal to 50">>
                     ELSE <<>>
        time_range == IF Get(arguments, "time_range", None).t \in {"null", "str"}
                      THEN <<>>
                      ELSE <<"time_range: Input should be a valid string">>
        page == LET g == Get(arguments, "page", Num(DefaultPage))
                IN  IF g.t = "null" THEN <<>>
                    ELSE IF g.t # "int" THEN <<"page: Input should be a valid integer">>
                    ELSE IF Val(g) < MinPage
                    THEN <<"page: Input should be greater than or equal to 1">>
                    ELSE <<>>
    IN  query \o limit \o time_range \o page

SearchParams(arguments) ==
    LET Validated(errors) ==
            IF errors # <<>>
            THEN Exc("ValidationError", ValidationMessage("SearchParams", errors))
            ELSE Ok([query |-> Val(arguments["query"]),
                     limit |-> Val(Get(arguments, "limit", Num(DefaultLimit))),
                     time_range |-> Get(arguments, "time_range", None),
                     page |-> Get(arguments, "page", Num(DefaultPage))])
    IN  Validated(SearchParamsErrors(arguments))

\* pydantic HttpUrl: the split of s into scheme, host and the rest
HttpUrlParts(s) ==
    LET Authority(after) ==
            From(after,
                 CHOOSE n \in 0..Len(after) :
                     /\ \A k \in 1..n : Char(after, k) \in {"/", "\\"}
                     /\ n < Len(after) => Char(after, n + 1) \notin {"/", "\\"})
        Parts(i, authority, d) ==
            [scheme |-> IF i > 0 THEN Lower(UpTo(s, i)) ELSE "",
             host |-> IF i <= 0 THEN ""
                      ELSE IF d < 0 THEN Lower(authority)
                      ELSE Lower(UpTo(authority, d)),
             rest |-> IF i <= 0 \/ d < 0 THEN "" ELSE From(authority, d)]
        Split(i, authority) ==
            Parts(i, authority, FindAny(authority, {"/", "?", "#"}))
        After(i) == Split(i, Authority(From(s, i + 1)))
    IN  After(FindAny(s, {":"}))

\* HttpUrl(s): the normalised URL pydantic keeps, or the ValidationError
HttpUrl(s) ==
    LET Check(parts) ==
            IF parts.scheme \notin {"http", "https"}
            THEN Exc("ValidationError",
                     "url: URL scheme should be 'http' or 'https'")
            ELSE IF parts.host = "" \/ " " \in Chars(parts.host)
            THEN Exc("ValidationError", "url: Input should be a valid URL")
            ELSE Ok(parts.scheme \o "://" \o parts.host
                       \o (IF StartsWith(parts.rest, "/") THEN "" ELSE "/")
                       \o parts.rest)
    IN  Check(HttpUrlParts(s))

\* SearchResult(title, url, snippet) from tagged values
SearchResult(title, url, snippet) ==
    LET Build(u) ==
            IF title.t # "str"
            THEN Exc("ValidationError", "title: Input should be a valid string")
            ELSE IF u.kind = "exc" THEN u
            ELSE IF snippet.t # "str"
            THEN Exc("ValidationError", "snippet: Input should be a valid string")
            ELSE Ok([title |-> Val(title), url |-> u.v, snippet |-> Val(snippet)])
    IN  Build(IF url.t = "str" THEN HttpUrl(Val(url))
              ELSE Exc("ValidationError", "url: URL input should be a string"))

----------------------------------------------------------------------------
(* searxng/searcher.py *)

DefaultSnippet == "No description available"

\* the GET search() issues
SearchRequest(p, config) ==
    [method |-> "GET",
     url |-> config.base_url \o "/search",
     params |-> ("q" :> Str(p.query)) @@ ("format" :> Str("json"))
                @@ ("pageno" :> p.page)
                @@ (IF Truthy(p.time_range)
                    THEN ("time_range" :> p.time_range) ELSE EmptyDict)]

\* one pass of the loop body: the SearchResult appended, a skip, or the
\* exception that leaves the loop
SearchEntry(result) ==
    LET Build(title, url, snippet) ==
            IF title.kind = "exc" THEN title
            ELSE IF url.kind = "exc" THEN url
            ELSE IF snippet.kind = "exc" THEN snippet
            ELSE SearchResult(title.v, url.v, snippet.v)
        Except(built) ==
            IF IsInstance(built, {"KeyError", "ValueError"})
            THEN [kind |-> "skip"]
            ELSE built
    IN  Except(Build(Subscript(result, "title"), Subscript(result, "url"),
                     DictGet(result, "content", Str(DefaultSnippet))))

\* a loop that stops at the first malformed entry instead of skipping it
RECURSIVE SearchLoop_StopAtMalformed(_)
SearchLoop_StopAtMalformed(entries) ==
    IF Len(entries) = 0 THEN Ok(<<>>)
    ELSE LET Step(first, more) ==
                 IF first.kind = "exc" THEN first
                 ELSE IF first.kind = "skip" THEN Ok(<<>>)
                 ELSE IF more.kind = "exc" THEN more
                 ELSE Ok(<<first.v>> \o more.v)
         IN  Step(SearchEntry(Head(entries)),
                    SearchLoop_StopAtMalformed(Tail(entries)))

\* the for loop of search(): the results list, or the exception that escapes
RECURSIVE SearchLoop(_)
SearchLoop(entries) ==
    IF Len(entries) = 0 THEN Ok(<<>>)
    ELSE LET Step(first, more) ==
                 IF first.kind = "exc" THEN first
                 ELSE IF more.kind = "exc" THEN more
                 ELSE IF first.kind = "skip" THEN more
                 ELSE Ok(<<first.v>> \o more.v)
         IN  Step(SearchEntry(Head(entries)), SearchLoop(Tail(entries)))

\* the try block of search() once the GET has been answered
SearchTry(up) ==
    IF up.kind = "exc" THEN Exc(up.type, up.msg)
    ELSE IF up.status \notin 200..299
    THEN Exc("RuntimeError",
             "HTTP " \o ToString(up.status) \o ": status error for url")
    ELSE IF up.body.t \in {"invalid", "undecodable"}
    THEN Exc("RuntimeError", "Invalid JSON response: " \o Val(up.body))
    ELSE LET Respond(listed, results) ==
                 IF results.kind = "exc" THEN results
                 ELSE Ok([results |-> results.v,
                          total_count |-> Len(Val(listed.v))])
             Loop(listed) ==
                 IF listed.kind = "exc" THEN listed
                 ELSE IF listed.v.t # "arr"
                 THEN Exc("TypeError",
                          "'" \o listed.v.t \o "' object is not iterable")
                 ELSE Respond(listed, SearchLoop(Val(listed.v)))
         IN  Loop(DictGet(up.body, "results", Arr(<<>>)))

\* a search that answers a failed upstream with an empty result list
search_ReturnsEmptyOnFailure(p, up) ==
    LET Except(try) ==
            IF try.kind = "exc"
            THEN Ok([results |-> <<>>, total_count |-> 0])
            ELSE try
    IN  Except(SearchTry(up))

\* SearxNGSearcher.search: Ok(SearchResponse) or the RuntimeError it raises
search(p, up) ==
    LET Except(try) ==
            IF IsInstance(try, {"TimeoutException"})
            THEN Exc("RuntimeError", "Request timeout: " \o try.msg)
            ELSE IF IsInstance(try, {"RequestError"})
            THEN Exc("RuntimeError", "Request failed: " \o try.msg)
            ELSE IF IsInstance(try, {"Exception"})
            THEN Exc("RuntimeError", "Search operation failed: " \o try.msg)
            ELSE try
    IN  Except(SearchTry(up))

----------------------------------------------------------------------------
(* searxng/tool.py *)

SearchResultTexts(results) ==
    [i \in 1..Len(results) |->
        ToString(i) \o ". " \o results[i].title \o "\n"
            \o "URL: " \o results[i].url \o "\n"
            \o "Description: " \o results[i].snippet \o "\n"]

\* SearxNGSearchTool.handle_request: what it validated, sent, got and returned
SearxNGSearchTool_handle_request(arguments, config, up) ==
    LET Handle(p) ==
            LET Format(search_response) ==
                    [params |-> p, sent |-> <<SearchRequest(p.v, config)>>,
                     response |-> search_response,
                     reply |-> IF search_response.kind = "exc"
                               THEN <<TextContent("Search failed: "
                                                  \o search_response.msg)>>
                               ELSE <<TextContent(
                                        "Found "
                                        \o ToString(search_response.v.total_count)
                                        \o " results (showing top "
                                        \o ToString(Len(search_response.v.results))
                                        \o ")"),
                                      TextContent("\n\n" \o
                                        Join("\n", SearchResultTexts(
                                                       search_response.v.results)))>>]
            IN  IF p.kind = "exc"
                THEN [params |-> p, sent |-> <<>>, response |-> [kind |-> "none"],
                      reply |-> <<TextContent("Search failed: " \o p.msg)>>]
                ELSE Format(search(p.v, up))
    IN  Handle(SearchParams(arguments))

----------------------------------------------------------------------------
(* youtube/config.py, youtube/schemas.py, youtube/extractor.py *)

YouTubeConfig_from_env(e) ==
    LET max_retries == PyInt(Get(e, "YOUTUBE_MAX_RETRIES", "3"))
        timeout == PyInt(Get(e, "YOUTUBE_TIMEOUT", "30"))
    IN  IF max_retries.kind = "exc" THEN max_retries
        ELSE IF timeout.kind = "exc" THEN timeout
        ELSE Ok([max_retries |-> max_retries.v, timeout |-> timeout.v,
                 default_language |-> Get(e, "YOUTUBE_DEFAULT_LANGUAGE", "en")])

\* TranscriptRequest(**arguments)
TranscriptRequest(arguments) ==
    LET url == IF "url" \notin DOMAIN arguments THEN <<"url: Field required">>
               ELSE IF arguments["url"].t # "str"
               THEN <<"url: Input should be a valid string">>
               ELSE <<>>
        language == IF Get(arguments, "language", None).t \in {"null", "str"}
                    THEN <<>>
                    ELSE <<"language: Input should be a valid string">>
    IN  IF url \o language # <<>>
        THEN Exc("ValidationError",
                 ValidationMessage("TranscriptRequest", url \o language))
        ELSE Ok([url |-> Val(arguments["url"]),
                 language |-> Get(arguments, "language", None)])

VideoIdLength == 11

\* the class [^"&?/\s]
IsIdChar(c) == c \notin {"\"", "&", "?", "/", " ", "\t", "\n", "\r", "\f"}

\* [^"&?/\s]{11} matches at the 0-based index i
IdAt(s, i) ==
    /\ i + VideoIdLength <= Len(s)
    /\ \A k \in 1..VideoIdLength : IsIdChar(Char(s, i + k))

\* $ matches at the 0-based index i: the end, or just before a final newline
DollarAt(s, i) == i = Len(s) \/ (i = Len(s) - 1 /\ Char(s, Len(s)) = "\n")

\* the three patterns of _extract_video_id: the literal alternatives that
\* precede the group, and whether the pattern is anchored with ^ and $
StandardPattern == [prefixes |-> {"v=", "/v/", "youtu.be/"}, anchored |-> FALSE]
EmbedPattern == [prefixes |-> {"embed/", "e/"}, anchored |-> FALSE]
DirectPattern == [prefixes |-> {""}, anchored |-> TRUE]

\* the patterns tried in the opposite order of the first two
patterns_EmbedFirst == <<EmbedPattern, StandardPattern, DirectPattern>>

patterns == <<StandardPattern, EmbedPattern, DirectPattern>>

\* the 0-based indexes at which the pattern matches
MatchPositions(pattern, s) ==
    {i \in 0..Len(s) :
        /\ pattern.anchored => i = 0
        /\ \E prefix \in pattern.prefixes :
              /\ MatchAt(s, i, prefix)
              /\ IdAt(s, i + Len(prefix))
              /\ pattern.anchored
                     => DollarAt(s, i + Len(prefix) + VideoIdLength)}

\* re.search(pattern, s).group(1): the group of the leftmost match
SearchGroup(pattern, s) ==
    LET i == CHOOSE m \in MatchPositions(pattern, s) :
                 \A n \in MatchPositions(pattern, s) : m <= n
        prefix == CHOOSE q \in pattern.prefixes :
                      MatchAt(s, i, q) /\ IdAt(s, i + Len(q))
    IN  SubSeq(s, i + Len(prefix) + 1, i + Len(prefix) + VideoIdLength)

\* the for loop of _extract_video_id over the patterns left to try
RECURSIVE FirstMatch(_, _)
FirstMatch(left, url) ==
    IF Len(left) = 0
    THEN Exc("ValueError", "Could not extract video ID from URL: " \o url)
    ELSE IF MatchPositions(Head(left), url) # {}
    THEN Ok(SearchGroup(Head(left), url))
    ELSE FirstMatch(Tail(left), url)

_extract_video_id(url) == FirstMatch(patterns, url)

\* ' '.join of the texts without the separator
full_text_NoSeparator(segments) ==
    Join("", [i \in 1..Len(segments) |-> segments[i].text])

\* full_text = ' '.join(segment['text'] for segment in segments)
full_text(segments) ==
    Join(" ", [i \in 1..Len(segments) |-> segments[i].text])

\* the transcript the library hands back for the language, or the exception:
\* find_transcript, then find_manually_created_transcript and translate
FindTranscript(up, language) ==
    IF language \in up.languages THEN Ok(language)
    ELSE IF Len(up.manual) = 0
    THEN Exc("NoTranscriptFound", "No transcripts were found")
    ELSE IF ~up.translatable
    THEN Exc("NotTranslatable", "The requested language is not translatable")
    ELSE Ok(language)

\* the inner try block of get_transcript
TranscriptTry(up, language) ==
    IF up.kind = "exc" THEN Exc(up.type, up.msg)
    ELSE LET transcript == FindTranscript(up, language)
         IN  IF transcript.kind = "exc" THEN transcript
             ELSE IF up.fetch.kind = "exc" THEN up.fetch
             ELSE Ok([text |-> full_text(up.fetch.v),
                      language |-> language,
                      segments |-> [i \in 1..Len(up.fetch.v) |->
                                       [text |-> up.fetch.v[i].text,
                                        start |-> up.fetch.v[i].start,
                                        duration |-> up.fetch.v[i].duration]]])

\* YouTubeTranscriptExtractor.get_transcript
get_transcript(url, language, config, up) ==
    LET lang == IF Truthy(language) THEN Val(language) ELSE config.default_language
        Except(video_id, try) ==
            IF IsInstance(try, {"TranscriptsDisabled", "NoTranscriptFound"})
            THEN Exc(try.type, "Failed to get transcript for video " \o video_id.v
                                   \o ": " \o try.msg)
            ELSE IF IsInstance(try, {"Exception"})
            THEN Exc("RuntimeError",
                     "Unexpected error getting transcript: " \o try.msg)
            ELSE try
        Extracted(video_id) ==
            IF video_id.kind = "exc" THEN video_id
            ELSE Except(video_id, TranscriptTry(up, lang))
    IN  Extracted(_extract_video_id(url))

----------------------------------------------------------------------------
(* youtube/tool.py *)

\* the times are rendered in tenths of a second
Seconds(tenths) == ToString(tenths \div 10) \o "." \o ToString(tenths % 10) \o "s"

SegmentLines(segments) ==
    [i \in 1..Len(segments) |->
        "[" \o Seconds(segments[i].start) \o " - "
            \o Seconds(segments[i].start + segments[i].duration) \o "] "
            \o segments[i].text]

\* YouTubeTranscriptTool() followed by handle_request
YouTubeTranscriptTool_handle_request(arguments, e, up) ==
    LET Handle(config, p) ==
            LET Format(transcript) ==
                    [params |-> p, video_id |-> _extract_video_id(p.v.url),
                     transcript |-> transcript,
                     reply |-> IF transcript.kind = "exc"
                               THEN <<TextContent("Transcript extraction failed: "
                                                  \o transcript.msg)>>
                               ELSE <<TextContent(Join("\n",
                                        <<"Language: " \o transcript.v.language,
                                          "\nTranscript:", transcript.v.text,
                                          "\nTimestamped Segments:">>
                                        \o SegmentLines(transcript.v.segments)))>>]
            IN  IF p.kind = "exc"
                THEN [params |-> p, video_id |-> [kind |-> "none"],
                      transcript |-> [kind |-> "none"],
                      reply |-> <<TextContent("Transcript extraction failed: "
                                              \o p.msg)>>]
                ELSE Format(get_transcript(p.v.url, p.v.language, config.v, up))
    IN  Handle(YouTubeConfig_from_env(e), TranscriptRequest(arguments))

----------------------------------------------------------------------------
(* Tool definitions: searxng/tool.py, crawl4ai/tool.py, youtube/tool.py *)

SearxNGSearchTool_tool_definition ==
    [name |-> "searxng_search",
     description |-> "Search the web using SearxNG",
     required |-> <<"query">>,
     properties |-> <<"query", "limit", "time_range">>]

Crawl4AITool_tool_definition ==
    [name |-> "crawl4ai_extract",
     description |-> "Extract content from web pages using Crawl4AI",
     required |-> <<"url">>,
     properties |-> <<"url", "cache_mode", "extra_headers">>]

YouTubeTranscriptTool_tool_definition ==
    [name |-> "youtube_transcript",
     description |-> "Extract transcript from YouTube videos",
     required |-> <<"url">>,
     properties |-> <<"url", "language">>]

\* the enum the search tool declares for time_range
TimeRangeEnum == {"day", "week", "month", "year"}

----------------------------------------------------------------------------
(* server.py: the two request handlers *)

IsSet(tool) == tool.t # "null"

handle_list_tools(searxng, crawl4ai) ==
    (IF IsSet(searxng) THEN <<SearxNGSearchTool_tool_definition>> ELSE <<>>)
    \o (IF IsSet(crawl4ai) THEN <<Crawl4AITool_tool_definition>> ELSE <<>>)

NotInvoked(msg) ==
    [raised |-> msg, invoked |-> "none", params |-> [kind |-> "none"],
     sent |-> <<>>, response |-> [kind |-> "none"], reply |-> <<>>]

\* a dispatcher whose adapters send the request again when it failed
Invoked_Resends(adapter, out) ==
    [raised |-> "", invoked |-> adapter, params |-> out.params,
     sent |-> IF out.response.kind = "exc" THEN out.sent \o out.sent
              ELSE out.sent,
     response |-> out.response, reply |-> out.reply]

Invoked(adapter, out) ==
    [raised |-> "", invoked |-> adapter, params |-> out.params,
     sent |-> out.sent, response |-> out.response, reply |-> out.reply]

\* a dispatcher that hands the arguments to the adapter unchecked
handle_call_tool_NoRequiredCheck(name, arguments, searxng, crawl4ai, up) ==
    LET args == IF arguments.t = "null" THEN EmptyDict ELSE Val(arguments)
    IN  IF name = "searxng_search" /\ IsSet(searxng)
        THEN Invoked("searxng",
                     SearxNGSearchTool_handle_request(args, searxng.config, up))
        ELSE IF name = "crawl4ai_extract" /\ IsSet(crawl4ai)
        THEN Invoked("crawl4ai",
                     Crawl4AITool_handle_request(args, crawl4ai.config, up))
        ELSE NotInvoked("Unknown tool: " \o name)

\* a dispatcher that falls back to the search adapter for unknown names
handle_call_tool_DefaultsToSearch(name, arguments, searxng, crawl4ai, up) ==
    LET args == IF arguments.t = "null" THEN EmptyDict ELSE Val(arguments)
    IN  IF name = "crawl4ai_extract" /\ IsSet(crawl4ai)
        THEN IF DOMAIN args = {} \/ "url" \notin DOMAIN args
             THEN NotInvoked("Missing required parameter: 'url'")
             ELSE Invoked("crawl4ai",
                          Crawl4AITool_handle_request(args, crawl4ai.config, up))
        ELSE IF DOMAIN args = {} \/ "query" \notin DOMAIN args
        THEN NotInvoked("Missing required parameter: 'query'")
        ELSE Invoked("searxng",
                     SearxNGSearchTool_handle_request(args, searxng.config, up))

\* handle_call_tool: the exception it raises, or the adapter's run
handle_call_tool(name, arguments, searxng, crawl4ai, up) ==
    LET args == IF arguments.t = "null" THEN EmptyDict ELSE Val(arguments)
    IN  IF name = "searxng_search" /\ IsSet(searxng)
        THEN IF DOMAIN args = {} \/ "query" \notin DOMAIN args
             THEN NotInvoked("Missing required parameter: 'query'")
             ELSE Invoked("searxng",
                          SearxNGSearchTool_handle_request(args, searxng.config, up))
        ELSE IF name = "crawl4ai_extract" /\ IsSet(crawl4ai)
        THEN IF DOMAIN args = {} \/ "url" \notin DOMAIN args
             THEN NotInvoked("Missing required parameter: 'url'")
             ELSE Invoked("crawl4ai",
                          Crawl4AITool_handle_request(args, crawl4ai.config, up))
        ELSE NotInvoked("Unknown tool: " \o name)

----------------------------------------------------------------------------
(* Inputs: environments, upstream outcomes and requests *)

GoodEnv == ("SEARXNG_URL" :> "http://searx.local")
           @@ ("CRAWL4AI_API_TOKEN" :> "secret")
           @@ ("CRAWL4AI_TIMEOUT" :> "60")

Envs == {GoodEnv,
         EmptyDict,
         ("SEARXNG_URL" :> ""),
         ("SEARXNG_URL" :> "http://searx.local") @@ ("CRAWL4AI_TIMEOUT" :> "soon"),
         GoodEnv @@ ("CRAWL4AI_WORD_COUNT_THRESHOLD" :> "ten")}

Unused == [kind |-> "unused"]
Http(status, body) == [kind |-> "http", status |-> status, body |-> body]

\* exceptions the HTTP client raises instead of answering
ClientFailures ==
    {Exc("TimeoutException", "timed out"),
     Exc("TransportError", "connection refused"),
     Exc("RequestError", "too many redirects"),
     Exc("RuntimeError", "event loop is closed")}

\* bodies that response.json() cannot decode
InvalidJson == [t |-> "invalid", invalid |-> "Expecting value: line 1 column 1 (char 0)"]
Undecodable == [t |-> "undecodable", undecodable |-> "'utf-8' codec can't decode byte 0xff"]

FailedAnswers ==
    ClientFailures
    \cup {Http(500, Str("")), Http(404, Str("")), Http(302, Str("")),
          Http(200, InvalidJson), Http(200, Undecodable)}

\* entries of an upstream search result list
EntryAlpha == Obj(("title" :> Str("Alpha")) @@ ("url" :> Str("https://alpha.example/a"))
                  @@ ("content" :> Str("first")))
EntryBeta == Obj(("title" :> Str("Beta")) @@ ("url" :> Str("http://beta.example")))
EntryNoTitle == Obj(("url" :> Str("https://untitled.example/")))
EntryNoUrl == Obj(("title" :> Str("Gamma")) @@ ("content" :> Str("third")))
EntryFtp == Obj(("title" :> Str("Delta")) @@ ("url" :> Str("ftp://delta.example/f")))
EntryRelative == Obj(("title" :> Str("Epsilon")) @@ ("url" :> Str("epsilon.example")))

EntryPool == {EntryAlpha, EntryNoUrl, EntryFtp}

EntryLists == UNION {[1..n -> EntryPool] : n \in 0..MaxEntries}

SearchBody(entries) == Obj("results" :> Arr(entries))

SearchAnswers ==
    FailedAnswers
    \cup {Http(200, SearchBody(entries)) : entries \in EntryLists}
    \cup {Http(200, SearchBody(<<EntryAlpha, EntryRelative>>)),
          Http(200, SearchBody(<<EntryNoTitle, EntryBeta>>)),
          Http(200, SearchBody(<<Str("Alpha")>>)),
          Http(200, Obj("results" :> None)),
          Http(200, Obj("query" :> Str("cats"))),
          Http(200, Arr(<<>>))}

\* the answer of the spec's example: three entries, the second without a url
ExampleSearchAnswer == Http(200, SearchBody(<<EntryAlpha, EntryNoUrl, EntryBeta>>))

\* bodies of the crawl upstream
RawLinkFull == Obj(("href" :> Str("/about")) @@ ("text" :> Str("About"))
                   @@ ("title" :> Str("About us")))
RawLinkHrefOnly == Obj("href" :> Str("https://other.example/"))
GoodLinks == Obj(("internal" :> Arr(<<RawLinkFull>>))
                 @@ ("external" :> Arr(<<RawLinkHrefOnly>>)))

CrawlBody(result) == Obj("result" :> result)
ResultOf(markdown, success, links) ==
    Obj(("markdown" :> markdown) @@ ("success" :> success) @@ ("links" :> links))

CrawlBodies ==
    {CrawlBody(ResultOf(Str("# Title"), Bool(TRUE), GoodLinks)),
     CrawlBody(ResultOf(None, Bool(TRUE), Obj(EmptyDict))),
     CrawlBody(ResultOf(Str(""), Bool(FALSE), GoodLinks)),
     Obj(("result" :> ResultOf(Str("partial"), Bool(FALSE), Obj(EmptyDict)))
         @@ ("error" :> Str("blocked by robots.txt"))),
     Arr(<<>>),
     Str("ok"),
     Obj("status" :> Str("ok")),
     CrawlBody(None),
     CrawlBody(Str("markdown success links")),
     CrawlBody(Arr(<<Str("markdown"), Str("success"), Str("links")>>)),
     CrawlBody(Obj(("success" :> Bool(TRUE)) @@ ("links" :> GoodLinks))),
     CrawlBody(Obj(("markdown" :> Str("# Title")) @@ ("links" :> GoodLinks))),
     CrawlBody(Obj(("markdown" :> Str("# Title")) @@ ("success" :> Bool(TRUE)))),
     CrawlBody(ResultOf(Str("# Title"), None, GoodLinks)),
     CrawlBody(ResultOf(Num(7), Bool(TRUE), GoodLinks)),
     CrawlBody(ResultOf(Str("# Title"), Bool(TRUE), None)),
     CrawlBody(ResultOf(Str("# Title"), Bool(TRUE), Obj("internal" :> None))),
     CrawlBody(ResultOf(Str("# Title"), Bool(TRUE),
                        Obj("internal" :> Arr(<<Str("/about")>>)))),
     CrawlBody(ResultOf(Str("# Title"), Bool(TRUE),
                        Obj("external" :> Arr(<<Obj("href" :> None)>>)))),
     Obj(("result" :> ResultOf(Str("# Title"), Bool(TRUE), GoodLinks))
         @@ ("error" :> Num(3)))}

CrawlAnswers == FailedAnswers \cup {Http(200, body) : body \in CrawlBodies}

ExampleCrawlAnswer == Http(200, CrawlBody(ResultOf(Str("# Title"), Bool(TRUE), GoodLinks)))

\* urls offered to the crawl tool: the pieces are concatenated
UrlSchemes == {"", "http", "https", "ftp", "HTTPS"}
UrlSeparators == {"", ":", "://", "//"}
UrlRests == {"", "example.com", "example.com/page?x=1", "/page", ":80"}

Urls == {a \o b \o c : a \in UrlSchemes, b \in UrlSeparators, c \in UrlRests}

GoodUrl == "https://example.com/page?x=1"

\* one optional argument: absent, or one of the values
Optional(key, values) == {EmptyDict} \cup {key :> x : x \in values}

SearchArguments ==
    {("query" :> Str("cats")) @@ l @@ g @@ r :
        l \in Optional("limit", {Num(0), Num(1), Num(50), Num(51)}),
        g \in Optional("page", {Num(0), Num(2), None}),
        r \in Optional("time_range", {Str("day"), Str("decade")})}
    \cup {("query" :> x) : x \in {Num(7), None, Str("")}}
    \cup {("limit" :> Num(5)), ("query" :> Str("cats")) @@ ("time_range" :> Str(""))}
    \cup {("query" :> Str("cats")) @@ ("time_range" :> Str(x)) : x \in TimeRangeEnum}
    \cup {("query" :> Str("cats")) @@ ("limit" :> x) : x \in {Str("many"), None}}

CrawlArguments ==
    {("url" :> Str(u)) : u \in Urls}
    \cup {("url" :> Str(GoodUrl)) @@ t @@ c @@ h :
            t \in Optional("timeout", {Num(5), Num(0), Str("soon")}),
            c \in Optional("cache_mode", {Str("bypass"), Str("sometimes"), None}),
            h \in Optional("extra_headers",
                           {Obj("X-Trace" :> Str("1")), Obj("X-Trace" :> Num(1))})}
    \cup {("cache_mode" :> Str("bypass"))}
    \cup {("url" :> x) : x \in {Num(7), None}}

ToolNames == {"searxng_search", "crawl4ai_extract", "youtube_transcript",
              "searxng", ""}

Call(name, arguments, up) == [name |-> name, arguments |-> arguments, up |-> up]

\* call_tool requests, each with the answer the upstream has ready should
\* the request reach it: requests that exercise the dispatcher
Calls ==
    {Call(name, a, ExampleSearchAnswer) :
        name \in ToolNames,
        a \in {None, Obj(EmptyDict), Obj("query" :> Str("cats")),
               Obj("url" :> Str(GoodUrl)), Obj("limit" :> Num(5)),
               Obj(("query" :> Str("cats")) @@ ("url" :> Str(GoodUrl)))}}
    \cup {Call("crawl4ai_extract", Obj("url" :> Str(GoodUrl)), up) :
            up \in {ExampleCrawlAnswer, Exc("TimeoutException", "timed out")}}
    \cup {Call("searxng_search", Obj("query" :> Str("cats")), Http(500, Str("")))}
    \cup {Call("searxng_search",
                Obj(("query" :> Str("cats")) @@ ("limit" :> Num(0))),
                ExampleSearchAnswer),
          Call("crawl4ai_extract", Obj("url" :> Str("ftp://example.com/f")),
                ExampleCrawlAnswer)}

\* requests that exercise the search adapter
SearchCalls ==
    {Call("searxng_search", Obj(a), ExampleSearchAnswer) : a \in SearchArguments}
    \cup {Call("searxng_search", Obj("query" :> Str("cats")), up) :
            up \in SearchAnswers}

\* requests that exercise the crawl adapter
CrawlCalls ==
    {Call("crawl4ai_extract", Obj(a), ExampleCrawlAnswer) : a \in CrawlArguments}
    \cup {Call("crawl4ai_extract", Obj("url" :> Str(GoodUrl)), up) :
            up \in CrawlAnswers}

\* what the transcript library finds for a video: the languages that have a
\* transcript, the manually created ones, whether they translate, and what
\* fetch() returns
Listed(languages, manual, translatable, fetch) ==
    [kind |-> "listed", languages |-> languages, manual |-> manual,
     translatable |-> translatable, fetch |-> fetch]

Segment(text, start, duration) ==
    [text |-> text, start |-> start, duration |-> duration]

SegmentPool == {Segment("Hello", 0, 15), Segment("big world", 15, 20),
                Segment("", 35, 5)}

SegmentLists == UNION {[1..n -> SegmentPool] : n \in 0..MaxSegments}

ExampleSegments == <<Segment("Hello", 0, 15), Segment("big world", 15, 20)>>

TranscriptAnswers ==
    {Listed({"en"}, <<"en">>, TRUE, Ok(q)) : q \in SegmentLists}
    \cup {Listed({"de"}, <<"de">>, t, Ok(ExampleSegments)) : t \in BOOLEAN}
    \cup {Listed({"de"}, <<>>, TRUE, Ok(ExampleSegments)),
          Listed({"en"}, <<>>, TRUE, Exc("HTTPError", "429 Too Many Requests")),
          Exc("TranscriptsDisabled", "Subtitles are disabled for this video"),
          Exc("NoTranscriptFound", "No transcripts were found"),
          Exc("VideoUnavailable", "The video is no longer available")}

ExampleTranscriptAnswer == Listed({"en"}, <<"en">>, TRUE, Ok(ExampleSegments))

\* inputs of the video id extraction: the pieces are concatenated
VideoUrlHeads == {"", "https://youtu.be/", "https://www.youtube.com/watch?v=",
                  "https://www.youtube.com/v/", "https://www.youtube.com/embed/",
                  "https://www.youtube.com/e/", "https://example.com/?id="}
VideoUrlIds == {"AAAAAAAAAAA", "AAAAAAAAAA", "AAAAA&AAAAAA", "not-a-valid-id"}
VideoUrlTails == {"", "?v=BBBBBBBBBBB", "/embed/BBBBBBBBBBB", "\n"}

VideoUrls ==
    {h \o i \o t : h \in VideoUrlHeads, i \in VideoUrlIds, t \in VideoUrlTails}
    \cup {"https://youtu.be/AAAAAAAAAAA",
          "https://www.youtube.com/embed/BBBBBBBBBBB",
          "CCCCCCCCCCC", "not-a-valid-id", ""}

TranscriptCalls ==
    {Call("youtube_transcript", Obj("url" :> Str(u)), ExampleTranscriptAnswer) :
        u \in VideoUrls}
    \cup {Call("youtube_transcript", Obj(("url" :> Str("CCCCCCCCCCC")) @@ l), up) :
            l \in Optional("language", {Str("de")}),
            up \in TranscriptAnswers}
    \cup {Call("youtube_transcript", Obj(a), ExampleTranscriptAnswer) :
            a \in {EmptyDict, "url" :> None,
                   ("url" :> Str("CCCCCCCCCCC")) @@ ("language" :> None),
                   ("url" :> Str("CCCCCCCCCCC")) @@ ("language" :> Num(1))}}

----------------------------------------------------------------------------
(* server.py: arun() *)

NoRequest == [kind |-> "none"]
NoTranscript == [kind |-> "none"]

request_vars == <<req, upstream, raised, reply, invoked, sent, params, response>>
lifecycle_vars == <<pc, env, searxng_tool, crawl4ai_tool, searxng_client,
                    crawl4ai_client, close_log, exit_code>>

Init ==
    /\ pc = "init_searxng"
    /\ env \in Envs
    /\ searxng_tool = None
    /\ crawl4ai_tool = None
    /\ searxng_client = "none"
    /\ crawl4ai_client = "none"
    /\ close_log = <<>>
    /\ exit_code = -1
    /\ served = 0
    /\ req = NoRequest
    /\ upstream = Unused
    /\ raised = ""
    /\ reply = <<>>
    /\ invoked = "none"
    /\ sent = <<>>
    /\ params = [kind |-> "none"]
    /\ response = [kind |-> "none"]
    /\ yt = NoTranscript

\* a startup that goes on to the next adapter when the search tool cannot be
\* constructed
InitSearxng_ContinuesOnFailure ==
    /\ pc = "init_searxng"
    /\ pc' = "init_crawl4ai"
    /\ LET config == SearxNGConfig_from_env(env)
       IN  IF config.kind = "exc"
           THEN UNCHANGED <<searxng_tool, searxng_client>>
           ELSE /\ searxng_tool' = [t |-> "SearxNGSearchTool", config |-> config.v]
                /\ searxng_client' = "open"
    /\ UNCHANGED <<env, crawl4ai_tool, crawl4ai_client, close_log, exit_code,
                   served, yt>>
    /\ UNCHANGED request_vars

\* searxng_tool = SearxNGSearchTool(): the config is read, then the searcher
\* opens its client; a failure is caught by arun's except clause
InitSearxng ==
    /\ pc = "init_searxng"
    /\ LET config == SearxNGConfig_from_env(env)
       IN  IF config.kind = "exc"
           THEN /\ pc' = "close_searxng"
                /\ exit_code' = 1
                /\ UNCHANGED <<searxng_tool, searxng_client>>
           ELSE /\ pc' = "init_crawl4ai"
                /\ searxng_tool' = [t |-> "SearxNGSearchTool", config |-> config.v]
                /\ searxng_client' = "open"
                /\ UNCHANGED exit_code
    /\ UNCHANGED <<env, crawl4ai_tool, crawl4ai_client, close_log, served, yt>>
    /\ UNCHANGED request_vars

\* a startup that ends the process at once when the crawl tool cannot be
\* constructed
InitCrawl4AI_ExitsOnFailure ==
    /\ pc = "init_crawl4ai"
    /\ LET config == Crawl4AIConfig_from_env(env)
       IN  IF config.kind = "exc"
           THEN /\ pc' = "exited"
                /\ exit_code' = 1
                /\ UNCHANGED <<crawl4ai_tool, crawl4ai_client>>
           ELSE /\ pc' = "serving"
                /\ crawl4ai_tool' = [t |-> "Crawl4AITool", config |-> config.v]
                /\ crawl4ai_client' = "open"
                /\ UNCHANGED exit_code
    /\ UNCHANGED <<env, searxng_tool, searxng_client, close_log, served, yt>>
    /\ UNCHANGED request_vars

\* crawl4ai_tool = Crawl4AITool()
InitCrawl4AI ==
    /\ pc = "init_crawl4ai"
    /\ LET config == Crawl4AIConfig_from_env(env)
       IN  IF config.kind = "exc"
           THEN /\ pc' = "close_searxng"
                /\ exit_code' = 1
                /\ UNCHANGED <<crawl4ai_tool, crawl4ai_client>>
           ELSE /\ pc' = "serving"
                /\ crawl4ai_tool' = [t |-> "Crawl4AITool", config |-> config.v]
                /\ crawl4ai_client' = "open"
                /\ UNCHANGED exit_code
    /\ UNCHANGED <<env, searxng_tool, searxng_client, close_log, served, yt>>
    /\ UNCHANGED request_vars

\* the transport loop dispatches a list_tools request
ListTools ==
    /\ pc = "serving"
    /\ served < MaxRequests
    /\ served' = served + 1
    /\ req' = [kind |-> "list_tools"]
    /\ upstream' = Unused
    /\ raised' = ""
    /\ reply' = handle_list_tools(searxng_tool, crawl4ai_tool)
    /\ invoked' = "none"
    /\ sent' = <<>>
    /\ params' = [kind |-> "none"]
    /\ response' = [kind |-> "none"]
    /\ UNCHANGED lifecycle_vars
    /\ UNCHANGED yt

\* the transport loop dispatches a call_tool request
CallTool(name, arguments, up) ==
    /\ pc = "serving"
    /\ served < MaxRequests
    /\ served' = served + 1
    /\ req' = [kind |-> "call_tool", name |-> name, arguments |-> arguments]
    /\ \E out \in {handle_call_tool(name, arguments, searxng_tool, crawl4ai_tool, up)} :
           /\ upstream' = IF Len(out.sent) > 0 THEN up ELSE Unused
           /\ raised' = out.raised
           /\ reply' = out.reply
           /\ invoked' = out.invoked
           /\ sent' = out.sent
           /\ params' = out.params
           /\ response' = out.response
    /\ UNCHANGED lifecycle_vars
    /\ UNCHANGED yt

\* app.run returns (the client closed the stream): arun returns 0
TransportEnds ==
    /\ pc = "serving"
    /\ pc' = "close_searxng"
    /\ exit_code' = 0
    /\ UNCHANGED <<env, searxng_tool, crawl4ai_tool, searxng_client,
                   crawl4ai_client, close_log, served, yt>>
    /\ UNCHANGED request_vars

\* stdio_server or app.run raises: arun's except clause returns 1
TransportFails ==
    /\ pc = "serving"
    /\ pc' = "close_searxng"
    /\ exit_code' = 1
    /\ UNCHANGED <<env, searxng_tool, crawl4ai_tool, searxng_client,
                   crawl4ai_client, close_log, served, yt>>
    /\ UNCHANGED request_vars

\* a shutdown that a failing close of the search tool ends at once
CloseSearxng_AbortsOnFailure(aclose_raises) ==
    /\ pc = "close_searxng"
    /\ pc' = IF aclose_raises THEN "exited" ELSE "close_crawl4ai"
    /\ IF IsSet(searxng_tool)
       THEN /\ searxng_client' = "closed"
            /\ close_log' = Append(close_log,
                   [adapter |-> "searxng", aclose_raised |-> aclose_raises])
       ELSE /\ aclose_raises = FALSE
            /\ UNCHANGED <<searxng_client, close_log>>
    /\ UNCHANGED <<env, searxng_tool, crawl4ai_tool, crawl4ai_client,
                   exit_code, served, yt>>
    /\ UNCHANGED request_vars

\* finally: close the search tool if it was constructed; aclose() may raise,
\* which SearxNGSearcher.close catches
CloseSearxng(aclose_raises) ==
    /\ pc = "close_searxng"
    /\ pc' = "close_crawl4ai"
    /\ IF IsSet(searxng_tool)
       THEN /\ searxng_client' = "closed"
            /\ close_log' = Append(close_log,
                   [adapter |-> "searxng", aclose_raised |-> aclose_raises])
       ELSE /\ aclose_raises = FALSE
            /\ UNCHANGED <<searxng_client, close_log>>
    /\ UNCHANGED <<env, searxng_tool, crawl4ai_tool, crawl4ai_client,
                   exit_code, served, yt>>
    /\ UNCHANGED request_vars

\* a close of the crawl tool after which the transport loop serves again
CloseCrawl4AI_KeepsServing(aclose_raises) ==
    /\ pc = "close_crawl4ai"
    /\ pc' = IF IsSet(crawl4ai_tool) THEN "serving" ELSE "exited"
    /\ IF IsSet(crawl4ai_tool)
       THEN /\ crawl4ai_client' = "closed"
            /\ close_log' = Append(close_log,
                   [adapter |-> "crawl4ai", aclose_raised |-> aclose_raises])
       ELSE /\ aclose_raises = FALSE
            /\ UNCHANGED <<crawl4ai_client, close_log>>
    /\ UNCHANGED <<env, searxng_tool, crawl4ai_tool, searxng_client,
                   exit_code, served, yt>>
    /\ UNCHANGED request_vars

\* finally: close the crawl tool if it was constructed, then arun is over
CloseCrawl4AI(aclose_raises) ==
    /\ pc = "close_crawl4ai"
    /\ pc' = "exited"
    /\ IF IsSet(crawl4ai_tool)
       THEN /\ crawl4ai_client' = "closed"
            /\ close_log' = Append(close_log,
                   [adapter |-> "crawl4ai", aclose_raised |-> aclose_raises])
       ELSE /\ aclose_raises = FALSE
            /\ UNCHANGED <<crawl4ai_client, close_log>>
    /\ UNCHANGED <<env, searxng_tool, crawl4ai_tool, searxng_client,
                   exit_code, served, yt>>
    /\ UNCHANGED request_vars

\* a request handled by the YouTube transcript tool, which server.py does not
\* construct: the tool is built from the environment and handles the request
TranscriptToolRequest(arguments, up) ==
    /\ served < MaxRequests
    /\ YouTubeConfig_from_env(env).kind = "ok"
    /\ served' = served + 1
    /\ \E out \in {YouTubeTranscriptTool_handle_request(arguments, env, up)} :
           yt' = [kind |-> "handled", arguments |-> arguments, upstream |-> up,
                  params |-> out.params, video_id |-> out.video_id,
                  transcript |-> out.transcript, reply |-> out.reply]
    /\ UNCHANGED lifecycle_vars
    /\ UNCHANGED request_vars

\* every step of arun() but the dispatch of a call_tool request
Lifecycle ==
    \/ InitSearxng
    \/ InitCrawl4AI
    \/ ListTools
    \/ TransportEnds
    \/ TransportFails
    \/ \E b \in BOOLEAN : CloseSearxng(b)
    \/ \E b \in BOOLEAN : CloseCrawl4AI(b)

Next ==
    \/ Lifecycle
    \/ \E c \in Calls : CallTool(c.name, c.arguments, c.up)

Spec == Init /\ [][Next]_vars

\* the server under requests to the search tool
NextSearch ==
    \/ Lifecycle
    \/ \E c \in SearchCalls : CallTool(c.name, c.arguments, c.up)

SpecSearch == Init /\ [][NextSearch]_vars

\* the server under requests to the crawl tool
NextCrawl ==
    \/ Lifecycle
    \/ \E c \in CrawlCalls : CallTool(c.name, c.arguments, c.up)

SpecCrawl == Init /\ [][NextCrawl]_vars

\* the YouTube transcript tool under requests
NextTranscript ==
    \E c \in TranscriptCalls : TranscriptToolRequest(Val(c.arguments), c.up)

\* the transcript tool reads only YOUTUBE_* variables, which no environment
\* of Envs sets: one environment stands for all
InitTranscript == Init /\ env = GoodEnv

SpecTranscript == InitTranscript /\ [][NextTranscript]_vars

TypeOK ==
    /\ pc \in {"init_searxng", "init_crawl4ai", "serving", "close_searxng",
               "close_crawl4ai", "exited"}
    /\ exit_code \in {-1, 0, 1}
    /\ served \in 0..MaxRequests
    /\ invoked \in {"none", "searxng", "crawl4ai"}
    /\ Len(sent) <= 1

----------------------------------------------------------------------------
(* Properties of the dispatcher *)

\* the names list_tools announces
RegisteredNames ==
    {handle_list_tools(searxng_tool, crawl4ai_tool)[i].name :
        i \in 1..Len(handle_list_tools(searxng_tool, crawl4ai_tool))}

\* the arguments of the request as a dict, None being no arguments at all
RequestArguments ==
    IF req.arguments.t = "null" THEN EmptyDict ELSE Val(req.arguments)

\* the field the dispatcher checks ahead of the adapter
PrimaryField(name) == IF name = "searxng_search" THEN "query" ELSE "url"

IsCall == req.kind = "call_tool"

\* C1: a call_tool request on a registered tool whose arguments lack the
\* tool's primary field ('query' for search, 'url' for crawl), absent and
\* empty arguments included, fails with a missing-parameter error; the
\* adapter is not invoked and no upstream request is issued.
C1_MissingPrimaryFieldRejected ==
    (/\ IsCall
     /\ req.name \in RegisteredNames
     /\ PrimaryField(req.name) \notin DOMAIN RequestArguments)
    => /\ raised = "Missing required parameter: '" \o PrimaryField(req.name) \o "'"
       /\ invoked = "none"
       /\ sent = <<>>
       /\ reply = <<>>

C1_Witness ==
    /\ IsCall
    /\ req.name = "crawl4ai_extract"
    /\ req.arguments = Obj("query" :> Str("cats"))
    /\ raised = "Missing required parameter: 'url'"
    /\ sent = <<>>

\* C2: in the ready state a call_tool request whose name matches no
\* registered adapter fails with an unknown-tool error, whatever its
\* arguments; no adapter is invoked and no upstream request is issued.
C2_UnknownToolRejected ==
    (IsCall /\ req.name \notin RegisteredNames)
    => /\ raised = "Unknown tool: " \o req.name
       /\ invoked = "none"
       /\ sent = <<>>
       /\ reply = <<>>

C2_Witness ==
    /\ IsCall
    /\ req.name = "searxng"
    /\ req.arguments = Obj("query" :> Str("cats"))
    /\ raised = "Unknown tool: searxng"
    /\ invoked = "none"

\* the three tools of the tool surface, in the order search, crawl, transcript
ToolSurface == <<SearxNGSearchTool_tool_definition, Crawl4AITool_tool_definition,
                 YouTubeTranscriptTool_tool_definition>>

\* C3: once the server is ready all three tools (search, crawl extraction,
\* YouTube transcript) are registered: list_tools returns the three
\* descriptors in the same order on every call, and call_tool with each of
\* the three names is routed to its adapter rather than rejected as unknown.
C3_AllThreeToolsRegistered ==
    /\ (pc = "serving" /\ req.kind = "list_tools") => reply = ToolSurface
    /\ (pc = "serving" /\ IsCall
          /\ req.name \in {ToolSurface[i].name : i \in 1..Len(ToolSurface)})
       => raised # "Unknown tool: " \o req.name

----------------------------------------------------------------------------
(* Properties of the crawl adapter *)

CrawlRan == IsCall /\ invoked = "crawl4ai" /\ params.kind = "ok"

\* a body that passes the shape validation the spec describes
ShapeValid(body) ==
    /\ body.t = "obj"
    /\ "result" \in DOMAIN Val(body)
    /\ Val(body)["result"].t = "obj"
    /\ {"markdown", "success", "links"} \subseteq DOMAIN Val(Val(body)["result"])

\* the upstream outcomes that are failures: an exception, a non-2xx status,
\* an undecodable body or a body of the wrong shape
ListedCrawlFailure(up) ==
    \/ up.kind = "exc"
    \/ /\ up.kind = "http"
       /\ \/ up.status < 200
          \/ up.status > 299
          \/ up.body.t \in {"invalid", "undecodable"}
          \/ ~ShapeValid(up.body)

FailedResult(result) ==
    /\ result.status = "failed"
    /\ result.success = FALSE
    /\ result.content = "Error occurred while crawling"
    /\ result.error.t = "str"
    /\ Len(Val(result.error)) > 0

\* C4: for every validated CrawlRequest and every upstream outcome crawl
\* never raises; for a non-2xx status, an invalid JSON body, a body of the
\* wrong shape, a timeout, a transport error or any other exception raised
\* while building the result it returns a CrawlResponse with exactly one
\* CrawlResult whose status is "failed", success is false, content is the
\* fixed placeholder and error is a non-empty message.
C4_CrawlFailuresAreData ==
    CrawlRan
    => /\ response.kind = "ok"
       /\ raised = ""
       /\ Len(response.v.results) = 1
       /\ ListedCrawlFailure(upstream) => FailedResult(response.v.results[1])
       /\ response.v.results[1].status # "completed"
              => FailedResult(response.v.results[1])

C4_Witness ==
    /\ CrawlRan
    /\ upstream = Http(200, CrawlBody(ResultOf(Str("# Title"), None, GoodLinks)))
    /\ response.kind = "ok"
    /\ FailedResult(response.v.results[1])

\* the url argument of the request, when it is a string
RequestUrl == Val(RequestArguments["url"])

HasStringUrl ==
    IsCall /\ "url" \in DOMAIN RequestArguments /\ RequestArguments["url"].t = "str"

\* u is <scheme>://<host>...: a first ':' that ends a scheme of letters,
\* digits, '+', '-' and '.', then '//' and at least one character of host
HasSchemeAndHost(u) ==
    \E i \in 2..Len(u) :
        /\ Char(u, i) = ":"
        /\ \A k \in 1..(i - 1) : Char(u, k) \in SchemeChars
        /\ Char(u, 1) \notin Chars(Digits) \cup {"+", "-", "."}
        /\ SubSeq(u, i + 1, i + 2) = "//"
        /\ Len(u) >= i + 3
        /\ Char(u, i + 3) \notin {"/", "?", "#"}

SchemeOf(u) == Lower(SubSeq(u, 1, FindAny(u, {":"})))

----------------------------------------------------------------------------
(* Properties of the search adapter *)

SearchCalled == IsCall /\ invoked = "searxng"

\* the upstream answered 2xx with a mapping whose results is a list of mappings
SuccessfulSearchAnswer(up) ==
    /\ up.kind = "http"
    /\ up.status \in 200..299
    /\ up.body.t = "obj"
    /\ "results" \in DOMAIN Val(up.body)
    /\ Val(up.body)["results"].t = "arr"
    /\ \A i \in 1..Len(Val(Val(up.body)["results"])) :
           Val(Val(up.body)["results"])[i].t = "obj"

ReportedEntries(up) == Val(Val(up.body)["results"])

\* u is http://<host>... or https://<host>...
IsHttpUrlText(u) ==
    \E scheme \in {"http://", "https://"} :
        /\ StartsWith(Lower(u), scheme)
        /\ Len(u) > Len(scheme)
        /\ Char(u, Len(scheme) + 1) \notin {"/", "?", "#"}

\* the entry has a title and a url, and its url is a valid http/https URL
Survives(entry) ==
    /\ {"title", "url"} \subseteq DOMAIN Val(entry)
    /\ Val(entry)["url"].t = "str"
    /\ IsHttpUrlText(Val(Val(entry)["url"]))

HasNumber(key) ==
    key \in DOMAIN RequestArguments /\ RequestArguments[key].t = "int"

SearchRejected ==
    /\ params.kind = "exc"
    /\ sent = <<>>
    /\ raised = ""
    /\ Len(reply) = 1
    /\ StartsWith(reply[1].text, "Search failed: ")

\* C9: a search request whose limit is outside 1..50 or whose page is less
\* than 1 is rejected as a validation failure before any upstream request is
\* issued; when limit or page is omitted the defaults 3 and 1 are used.
C9_SearchBoundsAndDefaults ==
    SearchCalled
    => /\ (HasNumber("limit") /\ Val(RequestArguments["limit"]) \notin 1..50)
              => SearchRejected
       /\ (HasNumber("page") /\ Val(RequestArguments["page"]) < 1)
              => SearchRejected
       /\ ("limit" \notin DOMAIN RequestArguments /\ params.kind = "ok")
              => params.v.limit = 3
       /\ ("page" \notin DOMAIN RequestArguments /\ params.kind = "ok")
              => /\ params.v.page = Num(1)
                 /\ Len(sent) = 1
                 /\ sent[1].params["pageno"] = Num(1)

C9_Witness ==
    /\ SearchCalled
    /\ req.arguments = Obj(("query" :> Str("cats")) @@ ("limit" :> Num(51)))
    /\ SearchRejected
    /\ Contains(reply[1].text, "limit")

\* C10: a search request whose time_range is present but is not one of day,
\* week, month, year is rejected as a validation failure, and no upstream
\* request carrying that time_range value is issued.
C10_TimeRangeEnumEnforced ==
    (/\ SearchCalled
     /\ "query" \in DOMAIN RequestArguments
     /\ "time_range" \in DOMAIN RequestArguments
     /\ RequestArguments["time_range"] \notin {Str(x) : x \in TimeRangeEnum})
    => /\ params.kind = "exc"
       /\ \A i \in 1..Len(sent) : "time_range" \notin DOMAIN sent[i].params

----------------------------------------------------------------------------
(* Properties of the transcript adapter *)

TranscriptHandled == yt.kind = "handled" /\ yt.params.kind = "ok"

\* the 11-character ids that follow one of the markers somewhere in u
IdsAfter(markers, u) ==
    {SubSeq(u, i + Len(m) + 1, i + Len(m) + 11) :
        <<i, m>> \in {z \in (0..Len(u)) \X markers :
                         /\ MatchAt(u, z[1], z[2])
                         /\ z[1] + Len(z[2]) + 11 <= Len(u)
                         /\ \A k \in 1..11 :
                                IsIdChar(Char(u, z[1] + Len(z[2]) + k))}}

\* the whole input is 11 id characters (a final line break aside)
WholeInputId(u) ==
    IF /\ Len(u) \in {11, 12}
       /\ \A k \in 1..11 : IsIdChar(Char(u, k))
       /\ Len(u) = 12 => Char(u, 12) = "\n"
    THEN {SubSeq(u, 1, 11)}
    ELSE {}

PatternA(u) == IdsAfter({"v=", "/v/", "youtu.be/"}, u)
PatternB(u) == IdsAfter({"embed/", "e/"}, u)
PatternC(u) == WholeInputId(u)

RECURSIVE SegmentOffset(_, _)
SegmentOffset(segments, i) ==
    IF i = 1 THEN 0
    ELSE SegmentOffset(segments, i - 1) + Len(segments[i - 1].text) + 1

\* text is the texts of the segments in order with one space between them
IsSpaceJoined(text, segments) ==
    LET n == Len(segments)
    IN  IF n = 0 THEN text = ""
        ELSE /\ Len(text) = SegmentOffset(segments, n) + Len(segments[n].text)
             /\ \A i \in 1..n :
                    MatchAt(text, SegmentOffset(segments, i), segments[i].text)
             /\ \A i \in 2..n : Char(text, SegmentOffset(segments, i)) = " "

\* C8: for every successful get_transcript the response's segments are the
\* upstream segments in upstream order, and the response's text is the
\* concatenation of the segments' texts in that order joined by single spaces.
C8_TextIsSpaceJoinedSegments ==
    (TranscriptHandled /\ yt.transcript.kind = "ok")
    => /\ yt.upstream.kind = "listed"
       /\ yt.upstream.fetch.kind = "ok"
       /\ yt.transcript.v.segments = yt.upstream.fetch.v
       /\ IsSpaceJoined(yt.transcript.v.text, yt.transcript.v.segments)

C8_Witness ==
    /\ TranscriptHandled
    /\ yt.transcript.kind = "ok"
    /\ yt.upstream.fetch.v = <<Segment("Hello", 0, 15), Segment("", 35, 5),
                               Segment("big world", 15, 20)>>
    /\ yt.transcript.v.text = "Hello  big world"

----------------------------------------------------------------------------
(* The limit of a search request *)

\* the number of results the reply renders: its numbered entries
RenderedResults ==
    IF Len(reply) = 2 THEN Len(response.v.results) ELSE 0

\* C11: for every search request the number of results returned and rendered
\* to the caller is at most the request's limit (default 3), whatever number
\* of entries the upstream returns.
C11_ResultsWithinLimit ==
    (SearchCalled /\ params.kind = "ok" /\ response.kind = "ok")
    => /\ Len(response.v.results) <= params.v.limit
       /\ RenderedResults <= params.v.limit

----------------------------------------------------------------------------
(* The exit code of the process *)

\* main is a click command and the entry point calls it with no arguments,
\* so click runs it in standalone mode
standalone_mode == TRUE

\* click.Command.main, as sys.exit(main()) runs it: it invokes the callback,
\* whose value is what anyio.run(arun) returns; outside standalone mode it
\* returns that value, in standalone mode it drops it and leaves through
\* ctx.exit(), which ends the process with status 0
main(arun_result) ==
    IF standalone_mode THEN 0 ELSE arun_result

\* the status the process ends with once arun has returned
ProcessExitCode == main(exit_code)

\* arun left through its except clause: the construction of an adapter or the
\* transport loop raised
UnhandledFailure ==
    \/ ~ IsSet(searxng_tool)
    \/ ~ IsSet(crawl4ai_tool)
    \/ exit_code = 1

\* C12: the process exit code is 0 when the transport loop ends cleanly, and 1
\* when adapter initialization or the transport loop raises an unhandled
\* failure.
C12_ExitCodeReportsFailure ==
    pc = "exited"
    => ProcessExitCode = (IF UnhandledFailure THEN 1 ELSE 0)

----------------------------------------------------------------------------
(* Startup *)

\* arun is past the construction of the adapters
StartupOver == pc \notin {"init_searxng", "init_crawl4ai"}

\* both adapters of server.py were constructed
AllConstructed == IsSet(searxng_tool) /\ IsSet(crawl4ai_tool)

\* a request was served: the transport loop dispatched it and replied
RequestServed == served > 0 \/ req # NoRequest \/ reply # <<>>

\* requests are served only with every adapter constructed, a failed
\* construction leads to shutdown with no request served, and list_tools
\* always announces both tools
ServesOnlyWhenAllConstructed ==
    /\ (pc = "serving" \/ RequestServed) => AllConstructed
    /\ (StartupOver /\ ~ AllConstructed)
       => /\ ~ RequestServed
          /\ pc \in {"close_searxng", "close_crawl4ai", "exited"}
          /\ exit_code = 1
    /\ req.kind = "list_tools"
       => RegisteredNames = {"searxng_search", "crawl4ai_extract"}

\* once startup is over it is never entered again and the adapters are never
\* replaced
StartsOnce ==
    StartupOver
    => /\ StartupOver'
       /\ searxng_tool' = searxng_tool
       /\ crawl4ai_tool' = crawl4ai_tool

\* C13: startup is fail-fast and happens once: the transport loop serves
\* requests only after every configured adapter has been constructed; if the
\* construction of any adapter fails the transport loop never starts, so no
\* list_tools or call_tool request is ever served with only part of the
\* adapters available.
C13_FailFastStartup ==
    [] ServesOnlyWhenAllConstructed /\ [][StartsOnce]_vars

\* the search adapter was constructed, the crawl adapter failed, and the
\* process ended without serving
C13_Witness ==
    /\ pc = "exited"
    /\ IsSet(searxng_tool)
    /\ ~ IsSet(crawl4ai_tool)
    /\ ~ RequestServed

----------------------------------------------------------------------------
(* Shutdown *)

\* the number of times the close of an adapter was attempted
CloseAttempts(adapter) ==
    Cardinality({i \in 1..Len(close_log) : close_log[i].adapter = adapter})

\* past each close step of the finally block the close of the adapter was
\* attempted if the adapter is registered, whatever the other close did
EveryCloseAttempted ==
    /\ (pc \in {"close_crawl4ai", "exited"} /\ IsSet(searxng_tool))
       => CloseAttempts("searxng") = 1
    /\ (pc = "exited" /\ IsSet(crawl4ai_tool))
       => CloseAttempts("crawl4ai") = 1

\* a close step leaves the value arun returns as it was, goes on to the next
\* step, and touches nothing the caller of a request was given
CloseKeepsOutcome ==
    pc \in {"close_searxng", "close_crawl4ai"}
    => /\ exit_code' = exit_code
       /\ pc' = (IF pc = "close_searxng" THEN "close_crawl4ai" ELSE "exited")
       /\ reply' = reply
       /\ raised' = raised

\* C14: at shutdown every registered adapter's close is attempted: a failure
\* raised while closing one adapter is logged and does not prevent the close
\* of the other adapters from being attempted, and does not change the
\* process's outcome.
C14_EveryCloseAttempted ==
    [] EveryCloseAttempted /\ [][CloseKeepsOutcome]_vars

\* the close of the search adapter failed, the close of the crawl adapter was
\* attempted all the same, and arun still returns 0
C14_Witness ==
    /\ pc = "exited"
    /\ exit_code = 0
    /\ close_log = << [adapter |-> "searxng", aclose_raised |-> TRUE],
                      [adapter |-> "crawl4ai", aclose_raised |-> FALSE] >>

----------------------------------------------------------------------------
(* The HTTP client of an adapter *)

\* the client of an adapter exists exactly when the adapter was constructed,
\* it is closed exactly when its close was attempted, which happens at most
\* once, and no client is left open when arun is over
OneClientPerAdapter ==
    /\ IsSet(searxng_tool) <=> searxng_client # "none"
    /\ IsSet(crawl4ai_tool) <=> crawl4ai_client # "none"
    /\ CloseAttempts("searxng") = (IF searxng_client = "closed" THEN 1 ELSE 0)
    /\ CloseAttempts("crawl4ai") = (IF crawl4ai_client = "closed" THEN 1 ELSE 0)
    /\ pc = "exited" => /\ searxng_client \in {"none", "closed"}
                        /\ crawl4ai_client \in {"none", "closed"}

\* the steps a client takes: created when its adapter is constructed, closed
\* by the finally block, never reopened or replaced
ClientStep(before, after, constructs, closes) ==
    before # after
    => \/ before = "none" /\ after = "open" /\ constructs
       \/ before = "open" /\ after = "closed" /\ closes

\* this step issued an upstream request
RequestIssued == served' > served /\ Len(sent') > 0

ClientLifetime ==
    /\ ClientStep(searxng_client, searxng_client',
                  pc = "init_searxng", pc = "close_searxng")
    /\ ClientStep(crawl4ai_client, crawl4ai_client',
                  pc = "init_crawl4ai", pc = "close_crawl4ai")
    /\ (RequestIssued /\ invoked' = "searxng")
       => searxng_client = "open" /\ searxng_client' = "open"
    /\ (RequestIssued /\ invoked' = "crawl4ai")
       => crawl4ai_client = "open" /\ crawl4ai_client' = "open"
    /\ RequestIssued => invoked' \in {"searxng", "crawl4ai"}

\* C15: each HTTP-backed adapter creates exactly one HTTP client, at adapter
\* construction, uses that same client for every request of its lifetime, and
\* closes it exactly once at shutdown; no upstream request is issued on a
\* client after it has been closed.
C15_OneClientClosedOnce ==
    [] OneClientPerAdapter /\ [][ClientLifetime]_vars

\* a request went out on the client of an adapter and both clients were then
\* closed
C15_Witness ==
    /\ pc = "exited"
    /\ Len(sent) = 1
    /\ invoked = "crawl4ai"
    /\ searxng_client = "closed"
    /\ crawl4ai_client = "closed"
    /\ CloseAttempts("searxng") = 1
    /\ CloseAttempts("crawl4ai") = 1

----------------------------------------------------------------------------
(* Failures of the search upstream *)

\* the upstream did not answer, answered with a status other than 2xx, or
\* answered with a body that is not JSON
FailedSearchAnswer(up) ==
    \/ up.kind = "exc"
    \/ up.kind = "http" /\ up.status \notin 200..299
    \/ up.kind = "http" /\ up.body.t \in {"invalid", "undecodable"}

\* the search adapter raised a RuntimeError whose message names the failure,
\* and the tool call returned that message as text
SearchFailureRendered ==
    /\ response.kind = "exc"
    /\ response.type = "RuntimeError"
    /\ \E prefix \in {"Request timeout: ", "Request failed: ",
                       "Search operation failed: "} :
           /\ StartsWith(response.msg, prefix)
           /\ Len(response.msg) > Len(prefix)
    /\ (upstream.kind = "http" /\ upstream.status \notin 200..299)
       => Contains(response.msg, "HTTP " \o ToString(upstream.status))
    /\ (upstream.kind = "exc") => Contains(response.msg, upstream.msg)
    /\ raised = ""
    /\ reply = <<TextContent("Search failed: " \o response.msg)>>

SearchFailuresAreText ==
    (SearchCalled /\ Len(sent) = 1 /\ FailedSearchAnswer(upstream))
    => SearchFailureRendered

\* a served request leaves the transport loop serving
KeepsServing ==
    served' > served => pc' = "serving" /\ UNCHANGED lifecycle_vars

\* C16: when the search upstream fails (non-2xx status, unparsable body,
\* timeout or connection error) the search adapter raises an error with a
\* human-readable message, carrying the HTTP status code in the non-2xx case,
\* and the tool call still completes: the caller receives plain failure text
\* containing that message, no results are returned, and the server keeps
\* serving later calls.
C16_SearchFailuresRendered ==
    [] SearchFailuresAreText /\ [][KeepsServing]_vars

\* the second call of a run was answered 500 and the caller got the text
C16_Witness ==
    /\ served = 2
    /\ pc = "serving"
    /\ SearchCalled
    /\ upstream = Http(500, Str(""))
    /\ reply = <<TextContent("Search failed: Search operation failed: "
                             \o "HTTP 500: status error for url")>>

----------------------------------------------------------------------------
(* Upstream requests of a call *)

\* the adapter of the call accepted the arguments
ArgumentsValid == params.kind = "ok"

\* C17: every call_tool invocation of search or crawl issues at most one
\* upstream HTTP request, exactly one when the arguments pass validation and
\* none when they do not, and the request is never sent again after a failure
\* or timeout.
C17_AtMostOneUpstreamRequest ==
    IsCall
    => /\ Len(sent) <= 1
       /\ invoked \in {"searxng", "crawl4ai"}
          => Len(sent) = (IF ArgumentsValid THEN 1 ELSE 0)
       /\ invoked = "none" => Len(sent) = 0
       /\ Len(sent) = 1
          => sent[1].method = (IF invoked = "searxng" THEN "GET" ELSE "POST")

\* a crawl whose one request timed out
C17_Witness ==
    /\ IsCall
    /\ invoked = "crawl4ai"
    /\ ArgumentsValid
    /\ upstream = Exc("TimeoutException", "timed out")
    /\ Len(sent) = 1

----------------------------------------------------------------------------
(* Completed crawls *)

\* the upstream answered 2xx with a body that passes the shape validation
ShapeValidAnswer(up) ==
    /\ up.kind = "http"
    /\ up.status \in 200..299
    /\ ShapeValid(up.body)

UpstreamResult(up) == Val(Val(up.body)["result"])

\* one raw link list is absent or a list of mappings whose href and text are
\* strings or absent and whose title is a string, null or absent
WellTypedLinkList(links, key) ==
    key \in DOMAIN links
    => /\ links[key].t = "arr"
       /\ \A i \in 1..Len(Val(links[key])) :
              /\ Val(links[key])[i].t = "obj"
              /\ Get(Val(Val(links[key])[i]), "href", Str("")).t = "str"
              /\ Get(Val(Val(links[key])[i]), "text", Str("")).t = "str"
              /\ Get(Val(Val(links[key])[i]), "title", Str("")).t
                     \in {"str", "null"}

\* the fields of the answer have the types a CrawlResult accepts
WellTypedAnswer(up) ==
    /\ UpstreamResult(up)["markdown"].t \in {"str", "null"}
    /\ UpstreamResult(up)["success"].t = "bool"
    /\ UpstreamResult(up)["links"].t = "obj"
    /\ WellTypedLinkList(Val(UpstreamResult(up)["links"]), "internal")
    /\ WellTypedLinkList(Val(UpstreamResult(up)["links"]), "external")
    /\ Get(Val(up.body), "error", None).t \in {"str", "null"}

\* one completed result that carries the upstream success flag and markdown
CompletedResult(up) ==
    /\ response.kind = "ok"
    /\ Len(response.v.results) = 1
    /\ response.v.total_count = 1
    /\ response.v.results[1].status = "completed"
    /\ UpstreamResult(up)["success"].t = "bool"
    /\ response.v.results[1].success = Val(UpstreamResult(up)["success"])
    /\ response.v.results[1].content
          = (IF UpstreamResult(up)["markdown"].t = "null" THEN ""
             ELSE Val(UpstreamResult(up)["markdown"]))

\* C18 as stated: for every 2xx crawl response whose body passes shape
\* validation, crawl returns a CrawlResponse with exactly one CrawlResult and
\* total_count = len(results) = 1, whose status is "completed" whatever the
\* upstream success flag is, whose success equals the upstream result.success,
\* and whose content is the upstream markdown, or the empty string when the
\* markdown is null.
C18_ShapeValidAnswersComplete ==
    (CrawlRan /\ ShapeValidAnswer(upstream)) => CompletedResult(upstream)

\* C18 amended: the same for every 2xx crawl response whose body passes shape
\* validation and whose fields have the types a CrawlResult accepts: markdown
\* a string or null, success a boolean, links a mapping whose internal and
\* external lists hold mappings with string href and text and string or null
\* title, and an error that is a string, null or absent.
C18_WellTypedAnswersComplete ==
    (CrawlRan /\ ShapeValidAnswer(upstream) /\ WellTypedAnswer(upstream))
    => CompletedResult(upstream)

\* a completed result whose success is false and whose markdown was empty
C18_Witness ==
    /\ CrawlRan
    /\ ShapeValidAnswer(upstream)
    /\ WellTypedAnswer(upstream)
    /\ response.kind = "ok"
    /\ response.v.results[1].status = "completed"
    /\ response.v.results[1].success = FALSE
    /\ response.v.results[1].content = ""

----------------------------------------------------------------------------
(* Shutdown after a partial startup *)

\* the adapters whose close the finally block has called
ClosedAdapters == {close_log[i].adapter : i \in 1..Len(close_log)}

\* the adapters that were constructed
ConstructedAdapters ==
    (IF IsSet(searxng_tool) THEN {"searxng"} ELSE {})
    \cup (IF IsSet(crawl4ai_tool) THEN {"crawl4ai"} ELSE {})

\* C19: if the search adapter is constructed and the construction of the
\* crawl adapter then fails, the search adapter's HTTP client is still closed
\* before the process ends; in every startup outcome each adapter that was
\* constructed is closed and no adapter that was not constructed is closed.
C19_ConstructedAdaptersClosed ==
    /\ ClosedAdapters \subseteq ConstructedAdapters
    /\ pc = "exited"
       => /\ ClosedAdapters = ConstructedAdapters
          /\ IsSet(searxng_tool) => searxng_client = "closed"
          /\ IsSet(crawl4ai_tool) => crawl4ai_client = "closed"
          /\ ~ IsSet(searxng_tool) => searxng_client = "none"
          /\ ~ IsSet(crawl4ai_tool) => crawl4ai_client = "none"

\* the crawl adapter failed to start and the search adapter alone was closed
C19_Witness ==
    /\ pc = "exited"
    /\ ConstructedAdapters = {"searxng"}
    /\ searxng_client = "closed"
    /\ crawl4ai_client = "none"
    /\ Len(close_log) = 1
    /\ close_log[1].adapter = "searxng"

====
